---- MODULE Spec2Model ----
(***************************************************************************)
(* ServiceNow-bridge: the result aggregation service                       *)
(* (src/src/services/ServiceNowDataService.ts), the curated result set     *)
(* (src/src/utils/searchUtils.ts) and the useSearch hook that merges them  *)
(* (src/unnamed/part_004).                                                 *)
(*                                                                         *)
(* JavaScript strings are TLA+ strings; Len, SubSeq and \o act on them     *)
(* character by character.  Date.now() is the variable now, in             *)
(* milliseconds.  The url field of a result is left out: no operation of   *)
(* the service or the hook reads it.                                       *)
(***************************************************************************)
EXTENDS Integers, Sequences, FiniteSets, TLC

VARIABLES
  userLoggedIn,    \* ServiceNowDataService.userLoggedIn
  sessionToken,    \* ServiceNowDataService.sessionToken
  cache,           \* ServiceNowDataService.cache: key -> [results, timestamp]
  now,             \* Date.now(), ms
  calls,           \* searchAll invocations suspended at await Promise.all
  obs,             \* what the last step did at the service boundary
  returned,        \* per cache key, the last list searchAll returned since
                   \* the last login or logout, with its entry's timestamp
  query,           \* useSearch: query
  timer,           \* useSearch: the pending debounce timeout
  debouncedQuery,  \* useSearch: debouncedQuery
  results,         \* useSearch: results
  runs,            \* useSearch: search effect runs suspended in performSearch
  fetches,         \* how many searchAll calls have started their adapters
  catArgs,         \* extractCategories: title, snippet, isDeveloper
  catResult,       \* extractCategories: whether it has returned, and what
  isLoggedIn,      \* useSearch: its isLoggedIn state
  refresh,         \* useSearch: queries of the pending login refresh timeouts
  needsLogin,      \* useSearch: its needsLogin state
  opened           \* the result card opened last, and what opening it did

vars == <<userLoggedIn, sessionToken, cache, now, calls, obs, returned,
          query, timer, debouncedQuery, results, runs, fetches,
          catArgs, catResult, isLoggedIn, refresh, needsLogin, opened>>

svcVars  == <<userLoggedIn, sessionToken, cache, now, calls, obs, returned, fetches>>
authVars == <<isLoggedIn, refresh, needsLogin, opened>>
hookVars == <<query, timer, debouncedQuery, results, runs, authVars>>
catVars  == <<catArgs, catResult>>

-----------------------------------------------------------------------------
(* Strings                                                                 *)

UpperChars == "ABCDEFGHIJKLMNOPQRSTUVWXYZ"
LowerChars == "abcdefghijklmnopqrstuvwxyz"

\* One character of String.prototype.toLowerCase
LowerChar(c) ==
  IF \E i \in 1..Len(UpperChars) : SubSeq(UpperChars, i, i) = c
  THEN LET i == CHOOSE j \in 1..Len(UpperChars) : SubSeq(UpperChars, j, j) = c
       IN  SubSeq(LowerChars, i, i)
  ELSE c

\* String.prototype.toLowerCase, character by character (the string is
\* halved at each step)
RECURSIVE toLowerCase(_)
toLowerCase(s) ==
  IF Len(s) = 0 THEN ""
  ELSE IF Len(s) = 1 THEN LowerChar(s)
  ELSE toLowerCase(SubSeq(s, 1, Len(s) \div 2))
         \o toLowerCase(SubSeq(s, Len(s) \div 2 + 1, Len(s)))

IsWhiteSpace(c) == c \in {" ", "\t", "\n"}

RECURSIVE trimStart(_)
trimStart(s) ==
  IF Len(s) > 0 /\ IsWhiteSpace(SubSeq(s, 1, 1))
  THEN trimStart(SubSeq(s, 2, Len(s))) ELSE s

RECURSIVE trimEnd(_)
trimEnd(s) ==
  IF Len(s) > 0 /\ IsWhiteSpace(SubSeq(s, Len(s), Len(s)))
  THEN trimEnd(SubSeq(s, 1, Len(s) - 1)) ELSE s

\* String.prototype.trim
trim(s) == trimEnd(trimStart(s))

\* String.prototype.includes
includes(s, sub) ==
  \E i \in 1..(Len(s) - Len(sub) + 1) : SubSeq(s, i, i + Len(sub) - 1) = sub

\* The character that stands for an unpaired surrogate code unit (U+D800):
\* encodeURIComponent throws URIError on a string that holds one.
LoneSurrogate == "^"
encodeURIComponentThrows(s) == includes(s, LoneSurrogate)

-----------------------------------------------------------------------------
(* src/src/types/search.ts                                                 *)

Documentation == "documentation"
Community     == "community"
Blog          == "blog"
DevSite       == "devsite"
NowCreate     == "nowcreate"
GitHub        == "github"
YouTube       == "youtube"

Product  == "product"
Persona  == "persona"
UseCase  == "usecase"
Industry == "industry"

Tag(type, name) == [type |-> type, name |-> name]

SearchResult(id, title, snippet, source, categories, isPredefined) ==
  [id |-> id, title |-> title, snippet |-> snippet, source |-> source,
   categories |-> categories, isPredefined |-> isPredefined]

-----------------------------------------------------------------------------
(* src/src/utils/searchUtils.ts: the curated result set                    *)

mockData == <<
  SearchResult("1", "Integrating ServiceNow with Azure AD",
    "Step-by-step guide to set up Single Sign-On between ServiceNow and Azure Active Directory. Learn about SAML configuration and user mapping.",
    Documentation,
    <<Tag(Product, "Platform"), Tag(Persona, "Administrator"), Tag(UseCase, "Identity Integration")>>,
    TRUE),
  SearchResult("2", "ServiceNow ITSM Best Practices",
    "Optimize your ITSM implementation with proven best practices for incident management, problem management, and change management. Includes KPI recommendations.",
    Blog,
    <<Tag(Product, "ITSM"), Tag(Persona, "Process Owner"), Tag(UseCase, "Process Optimization")>>,
    FALSE),
  SearchResult("3", "Using Flow Designer for HR Service Delivery",
    "Learn how to automate HR workflows using Flow Designer. Includes examples for onboarding, time-off requests, and employee transitions.",
    Community,
    <<Tag(Product, "HRSD"), Tag(Persona, "HR Administrator"), Tag(UseCase, "Workflow Automation")>>,
    FALSE),
  SearchResult("4", "ServiceNow Performance Analytics Dashboard Configuration",
    "Configure powerful dashboards using Performance Analytics. Learn about widgets, data sources, and visualization best practices.",
    Documentation,
    <<Tag(Product, "Performance Analytics"), Tag(Persona, "Business Analyst"), Tag(UseCase, "Reporting")>>,
    TRUE),
  SearchResult("5", "Implementing CMDB in ServiceNow",
    "Best practices for CMDB implementation including data modeling, discovery setup, and maintaining data quality.",
    NowCreate,
    <<Tag(Product, "CMDB"), Tag(Persona, "Technical Architect"), Tag(UseCase, "Asset Management")>>,
    TRUE),
  SearchResult("6", "ServiceNow API Authentication Methods",
    "Learn different methods to authenticate with ServiceNow APIs including Basic Auth, OAuth, and Mid Server. Includes code examples in JavaScript and Python.",
    DevSite,
    <<Tag(Product, "Platform"), Tag(Persona, "Developer"), Tag(UseCase, "Integration")>>,
    FALSE),
  SearchResult("7", "Agent Workspace Customization",
    "Customize the Agent Workspace to improve agent productivity. Learn about configuration options, custom widgets, and layouts.",
    Documentation,
    <<Tag(Product, "ITSM"), Tag(Persona, "System Administrator"), Tag(UseCase, "UI/UX")>>,
    FALSE),
  SearchResult("8", "ServiceNow Tokyo Release Highlights",
    "Overview of key features and improvements in the Tokyo release. Learn about platform changes, new modules, and deprecated functionality.",
    Blog,
    <<Tag(Product, "Platform"), Tag(Persona, "All"), Tag(UseCase, "Upgrade Planning")>>,
    TRUE)
>>

getMockResults(q) ==
  LET lowerQuery == toLowerCase(q)
      Match(result) == \/ includes(toLowerCase(result.title), lowerQuery)
                       \/ includes(toLowerCase(result.snippet), lowerQuery)
  IN  SelectSeq(mockData, Match)

\* performSearch, once its 600 ms delay is over
performSearch(q) == IF trim(q) = "" THEN <<>> ELSE getMockResults(q)

-----------------------------------------------------------------------------
(* ServiceNowDataService.ts: the source adapters.  t is Date.now() when    *)
(* the adapter resumes after its simulated delay and builds its results.   *)
(* An exception inside an adapter's try block yields [].                   *)

Id(prefix, t, suffix) == prefix \o "-" \o ToString(t) \o "-" \o suffix

searchDocumentation(q, t) ==
  LET lq == toLowerCase(q)
      r1 == IF includes(lq, "itsm") \/ includes(lq, "incident")
            THEN <<SearchResult(Id("docs", t, "1"),
                     "IT Service Management (ITSM) - " \o q,
                     "Comprehensive documentation about ServiceNow ITSM including incident, problem, and change management. Learn how to configure and use ITSM features to streamline your IT operations.",
                     Documentation,
                     <<Tag(Product, "ITSM"), Tag(Persona, "Administrator"), Tag(UseCase, "Service Desk")>>,
                     FALSE)>>
            ELSE <<>>
      r2 == IF includes(lq, "hrsd") \/ includes(lq, "hr")
            THEN <<SearchResult(Id("docs", t, "2"),
                     "HR Service Delivery Guide - " \o q,
                     "Learn about ServiceNow HR Service Delivery and how it helps organizations streamline HR processes and improve employee experience.",
                     Documentation,
                     <<Tag(Product, "HRSD"), Tag(Persona, "HR Manager"), Tag(UseCase, "Employee Service Center")>>,
                     FALSE)>>
            ELSE <<>>
      r3 == IF includes(lq, "platform") \/ includes(lq, "develop")
            THEN <<SearchResult(Id("docs", t, "3"),
                     "ServiceNow Platform Administration - " \o q,
                     "Documentation covering the core ServiceNow platform capabilities, configuration, and administration.",
                     Documentation,
                     <<Tag(Product, "Platform"), Tag(Persona, "Administrator"), Tag(UseCase, "Configuration")>>,
                     FALSE)>>
            ELSE <<>>
      r4 == <<SearchResult(Id("docs", t, "4"),
                "Search Results for \"" \o q \o "\" - ServiceNow Documentation",
                "ServiceNow documentation related to your search for \"" \o q \o "\". Our documentation provides comprehensive guides for using ServiceNow products and features.",
                Documentation,
                <<Tag(Product, "Platform"), Tag(Persona, "All")>>,
                FALSE)>>
  IN  IF encodeURIComponentThrows(q) THEN <<>> ELSE r1 \o r2 \o r3 \o r4

searchCommunity(q, t) ==
  LET lq == toLowerCase(q)
      r1 == <<SearchResult(Id("community", t, "1"),
                "How to solve " \o q \o " in ServiceNow?",
                "I've been trying to implement " \o q \o " in our instance but running into some issues. Has anyone successfully done this before? Looking for best practices and any pitfalls to avoid.",
                Community,
                <<Tag(Product, "Platform"), Tag(Persona, "Developer"), Tag(UseCase, "Integration")>>,
                FALSE)>>
      r2 == IF includes(lq, "script") \/ includes(lq, "code")
            THEN <<SearchResult(Id("community", t, "2"),
                     "Scripting examples for " \o q \o " in ServiceNow",
                     "Community discussion with various script examples and approaches to implement " \o q \o " functionality. Includes business rules, client scripts, and UI actions.",
                     Community,
                     <<Tag(Persona, "Developer"), Tag(UseCase, "Customization")>>,
                     FALSE)>>
            ELSE <<>>
  IN  IF encodeURIComponentThrows(q) THEN <<>> ELSE r1 \o r2

searchDeveloperSite(q, t) ==
  LET lq == toLowerCase(q)
      r1 == IF includes(lq, "api") \/ includes(lq, "rest") \/ includes(lq, "integration")
            THEN <<SearchResult(Id("dev", t, "1"),
                     "REST API Developer Guide - " \o q,
                     "Comprehensive documentation about ServiceNow REST APIs, including authentication, endpoints, and example requests for " \o q \o " related operations.",
                     DevSite,
                     <<Tag(Persona, "Developer"), Tag(UseCase, "Integration")>>,
                     FALSE)>>
            ELSE <<>>
      r2 == IF includes(lq, "script") \/ includes(lq, "code") \/ includes(lq, "develop")
            THEN <<SearchResult(Id("dev", t, "2"),
                     "Scripting in ServiceNow - Developer Guide",
                     "Learn how to write effective scripts in ServiceNow for business rules, client scripts, UI actions, and more. Includes best practices and example code.",
                     DevSite,
                     <<Tag(Persona, "Developer"), Tag(UseCase, "Customization")>>,
                     FALSE)>>
            ELSE <<>>
      r3 == <<SearchResult(Id("dev", t, "3"),
                "Developer resources for " \o q,
                "ServiceNow developer documentation and guides related to " \o q \o ". Find API references, code samples, and development best practices.",
                DevSite,
                <<Tag(Persona, "Developer")>>,
                FALSE)>>
  IN  IF encodeURIComponentThrows(q) THEN <<>> ELSE r1 \o r2 \o r3

searchBlog(q, t) ==
  LET lq == toLowerCase(q)
      r1 == <<SearchResult(Id("blog", t, "1"),
                "Best Practices for " \o q \o " in ServiceNow",
                "Our experts share the latest best practices and strategies for implementing " \o q \o " in your ServiceNow instance. Learn how leading organizations are maximizing their ROI.",
                Blog,
                <<Tag(Product, "Platform"), Tag(UseCase, "Best Practices")>>,
                FALSE)>>
      r2 == IF includes(lq, "ai") \/ includes(lq, "automation")
            THEN <<SearchResult(Id("blog", t, "2"),
                     "How AI is Transforming ServiceNow Implementations",
                     "Explore how artificial intelligence and machine learning are enhancing ServiceNow capabilities and driving automation across the platform.",
                     Blog,
                     <<Tag(Product, "AI Intelligence"), Tag(UseCase, "Innovation")>>,
                     FALSE)>>
            ELSE <<>>
  IN  IF encodeURIComponentThrows(q) THEN <<>> ELSE r1 \o r2

searchYouTube(q, t) ==
  LET lq == toLowerCase(q)
      r1 == <<SearchResult(Id("youtube", t, "1"),
                "ServiceNow Tutorial: " \o q \o " Explained",
                "In this video, we explain how to implement " \o q \o " in ServiceNow with step-by-step instructions and best practices. Perfect for beginners and intermediate users.",
                YouTube,
                <<Tag(Persona, "Administrator"), Tag(UseCase, "Training")>>,
                FALSE)>>
      r2 == IF includes(lq, "demo") \/ includes(lq, "how to")
            THEN <<SearchResult(Id("youtube", t, "2"),
                     "ServiceNow " \o q \o " Demo",
                     "Watch a detailed demonstration of " \o q \o " functionality in ServiceNow. See the feature in action and learn about configuration options.",
                     YouTube,
                     <<Tag(Persona, "All"), Tag(UseCase, "Demonstration")>>,
                     FALSE)>>
            ELSE <<>>
  IN  IF encodeURIComponentThrows(q) THEN <<>> ELSE r1 \o r2

\* What the GitHub search request can come back with: the fetch rejects,
\* the response is not OK, its body is no JSON, or it is a body whose items
\* are [name, description] records (description "" when the repository has
\* none).
NetworkError == [kind |-> "reject", items |-> <<>>]
NotOk        == [kind |-> "status", items |-> <<>>]
ParseError   == [kind |-> "json", items |-> <<>>]
Ok(items)    == [kind |-> "ok", items |-> items]

Repo(name, description) == [name |-> name, description |-> description]

Min(a, b) == IF a < b THEN a ELSE b

searchGitHub(q, t, response) ==
  LET items == SubSeq(response.items, 1, Min(5, Len(response.items)))
  IN  IF encodeURIComponentThrows(q) \/ response.kind # "ok" THEN <<>>
      ELSE [index \in 1..Len(items) |->
             SearchResult(Id("github", t, ToString(index - 1)),
               items[index].name,
               IF items[index].description = "" THEN "No description available"
               ELSE items[index].description,
               GitHub,
               <<Tag(Persona, "Developer"), Tag(UseCase, "Integration")>>,
               FALSE)]

\* searchNowCreate that gives the teaser whatever the login state
searchNowCreate_AlwaysTeaser(q, loggedIn, t) ==
  <<SearchResult(Id("nowcreate", t, "login"),
      "Now Create: Implementation guides for " \o q,
      "Login required to view full content.",
      NowCreate,
      <<Tag(Persona, "Implementation Specialist"), Tag(UseCase, "Implementation")>>,
      FALSE)>>

\* searchNowCreate: the teaser is returned at once when the user is not
\* logged in at the call; otherwise the full results after the delay.
searchNowCreate(q, loggedIn, t) ==
  IF ~loggedIn
  THEN <<SearchResult(Id("nowcreate", t, "login"),
           "Now Create: Implementation guides for " \o q,
           "Access step-by-step implementation guides, methodologies, and templates related to \"" \o q \o "\" in ServiceNow Now Create. Login required to view full content.",
           NowCreate,
           <<Tag(Persona, "Implementation Specialist"), Tag(UseCase, "Implementation")>>,
           FALSE)>>
  ELSE IF encodeURIComponentThrows(q) THEN <<>>
  ELSE <<SearchResult(Id("nowcreate", t, "1"),
           "Implementation Guide: " \o q,
           "Comprehensive implementation guide for " \o q \o " with step-by-step instructions, best practices, and templates. Follow this methodology for a successful implementation.",
           NowCreate,
           <<Tag(Persona, "Implementation Specialist"), Tag(UseCase, "Implementation")>>,
           FALSE),
         SearchResult(Id("nowcreate", t, "2"),
           q \o " Leading Practices",
           "Learn about industry-leading practices for " \o q \o " implementation and configuration. Includes governance models, process flows, and KPIs.",
           NowCreate,
           <<Tag(Persona, "Architect"), Tag(UseCase, "Best Practices")>>,
           FALSE)>>

searchTechNotes(q, loggedIn, t) ==
  IF ~loggedIn
  THEN <<SearchResult(Id("technotes", t, "login"),
           "ServiceNow TechNotes for " \o q,
           "Access technical knowledge base articles related to \"" \o q \o "\" in ServiceNow. Login required to view full content.",
           DevSite,
           <<Tag(Persona, "Administrator"), Tag(UseCase, "Troubleshooting")>>,
           FALSE)>>
  ELSE <<SearchResult(Id("technotes", t, "1"),
           "Troubleshooting: " \o q \o " issues in ServiceNow",
           "Technical article detailing common issues, error messages, and troubleshooting steps for " \o q \o " in ServiceNow.",
           DevSite,
           <<Tag(Persona, "Administrator"), Tag(UseCase, "Troubleshooting")>>,
           FALSE),
         SearchResult(Id("technotes", t, "2"),
           "Advanced Configuration Guide: " \o q,
           "Step-by-step technical guide for advanced configuration of " \o q \o " functionality. Includes script examples and configuration parameters.",
           DevSite,
           <<Tag(Persona, "Administrator"), Tag(UseCase, "Configuration")>>,
           FALSE)>>

-----------------------------------------------------------------------------
(* The inputs the specifications draw from                                 *)

\* Queries given to searchAll through the public interface
QueryInputs == {"", " ", "hr", " HR"}

\* Queries of the fan-out: one that encodes, one that encodeURIComponent
\* rejects
FanOutQueries == {"hr", LoneSurrogate}

\* Queries typed into the search box of the page
TypedQueries == {"", "cmdb", "best practices"}

AllQueries == QueryInputs \cup TypedQueries \cup FanOutQueries

\* The (username, password) pairs given to login
Credentials == {<<"alice", "secret">>, <<"alice", "">>, <<"", "secret">>}

\* Responses of the GitHub search request
GitHubResponses ==
  {Ok(<<Repo("snow-utils", "")>>)}

FanOutGitHubResponses ==
  {NetworkError, NotOk, ParseError, Ok(<<Repo("snow-utils", "")>>)}

HookGitHubResponses ==
  {NotOk,
   Ok(<<Repo("snow-utils", ""), Repo("Snow-Utils", "a fork")>>),
   Ok(<<Repo("IMPLEMENTING CMDB IN SERVICENOW", "")>>)}

AllResponses == GitHubResponses \cup FanOutGitHubResponses \cup HookGitHubResponses

-----------------------------------------------------------------------------
(* ServiceNowDataService.ts: cache, authentication state, searchAll        *)

cacheDuration == 1000 * 60 * 30

\* The clock advances in steps of TickMs up to MaxTicks steps.
TickMs   == 1000 * 60 * 15
MaxTicks == 2

\* At most MaxFetches searchAll calls miss the cache and start their adapters.
MaxFetches == 2

\* The adapters, in the order of the array given to Promise.all
Adapters == <<"searchDocumentation", "searchCommunity", "searchDeveloperSite",
              "searchBlog", "searchYouTube", "searchGitHub",
              "searchNowCreate", "searchTechNotes">>

AdapterSet == {Adapters[i] : i \in 1..Len(Adapters)}

GatedAdapters == {"searchNowCreate", "searchTechNotes"}

NoCache == [k \in {} |-> <<>>]

\* CacheKey without the authentication flag
CacheKey_NoAuthFlag(q, loggedIn) == trim(toLowerCase(q))

\* const cacheKey = `${query.toLowerCase().trim()}-${this.userLoggedIn ? 'auth' : 'noauth'}`
CacheKey(q, loggedIn) ==
  trim(toLowerCase(q)) \o "-" \o (IF loggedIn THEN "auth" ELSE "noauth")

\* getCachedResults that still serves an entry at the end of the window
getCachedResults_Inclusive(key) ==
  IF key \in DOMAIN cache /\ now - cache[key].timestamp <= cacheDuration
  THEN [found |-> TRUE, results |-> cache[key].results]
  ELSE [found |-> FALSE, results |-> <<>>]

\* getCachedResults that never finds an entry
getCachedResults_AlwaysNull(key) == [found |-> FALSE, results |-> <<>>]

\* getCachedResults that drops the first result of the entry
getCachedResults_DropsFirst(key) ==
  IF key \in DOMAIN cache /\ now - cache[key].timestamp < cacheDuration
  THEN [found |-> TRUE, results |-> Tail(cache[key].results)]
  ELSE [found |-> FALSE, results |-> <<>>]

\* getCachedResults: found is FALSE for null
getCachedResults(key) ==
  IF key \in DOMAIN cache /\ now - cache[key].timestamp < cacheDuration
  THEN [found |-> TRUE, results |-> cache[key].results]
  ELSE [found |-> FALSE, results |-> <<>>]

\* cacheResults that keeps the entry a key already has
cacheResults_FirstWriteWins(key, list) ==
  IF key \in DOMAIN cache THEN cache
  ELSE [k \in DOMAIN cache \cup {key} |->
          IF k = key THEN [results |-> list, timestamp |-> now] ELSE cache[k]]

\* cacheResults: Map.set, the other keys kept
cacheResults(key, list) ==
  [k \in DOMAIN cache \cup {key} |->
     IF k = key THEN [results |-> list, timestamp |-> now] ELSE cache[k]]

\* What one adapter resolves to when it settles at time t
AdapterResult(a, q, loggedIn, t, response) ==
  CASE a = "searchDocumentation" -> searchDocumentation(q, t)
    [] a = "searchCommunity"     -> searchCommunity(q, t)
    [] a = "searchDeveloperSite" -> searchDeveloperSite(q, t)
    [] a = "searchBlog"          -> searchBlog(q, t)
    [] a = "searchYouTube"       -> searchYouTube(q, t)
    [] a = "searchGitHub"        -> searchGitHub(q, t, response)
    [] a = "searchNowCreate"     -> searchNowCreate(q, loggedIn, t)
    [] a = "searchTechNotes"     -> searchTechNotes(q, loggedIn, t)

\* The values of the clock
Times == {i * TickMs : i \in 0..MaxTicks}

\* AdapterResult, trim and CacheKey tabulated over the inputs
TimerAdapterResults ==
  [q \in AllQueries |-> [t \in Times |-> [loggedIn \in BOOLEAN |->
     [a \in AdapterSet \ {"searchGitHub"} |->
        AdapterResult(a, q, loggedIn, t, NetworkError)]]]]

GitHubResults ==
  [q \in AllQueries |-> [t \in Times |-> [response \in AllResponses |->
     searchGitHub(q, t, response)]]]

\* Resolved with the gate read when the adapter settles
Resolved_GateAtSettle(a, q, loggedIn, t, response) ==
  IF a = "searchGitHub" THEN GitHubResults[q][t][response]
  ELSE TimerAdapterResults[q][t][userLoggedIn][a]

Resolved(a, q, loggedIn, t, response) ==
  IF a = "searchGitHub" THEN GitHubResults[q][t][response]
  ELSE TimerAdapterResults[q][t][loggedIn][a]

Throws == [q \in AllQueries |-> encodeURIComponentThrows(q)]

\* The adapter's catch block is entered: encodeURIComponent throws inside
\* its try block, or the GitHub request rejects, is not OK or has no JSON body.
Failed(a, q, loggedIn, response) ==
  CASE a = "searchGitHub"    -> Throws[q] \/ response.kind # "ok"
    [] a = "searchNowCreate" -> loggedIn /\ Throws[q]
    [] a = "searchTechNotes" -> FALSE
    [] OTHER                 -> Throws[q]

\* The empty-query test without trim
IsEmptyQuery_NoTrim == [q \in AllQueries |-> q = ""]

\* if (!query.trim()) return []
IsEmptyQuery == [q \in AllQueries |-> trim(q) = ""]

CacheKeys == [q \in AllQueries |-> [loggedIn \in BOOLEAN |-> CacheKey(q, loggedIn)]]

\* results.flat()
RECURSIVE flat(_)
flat(lists) == IF lists = <<>> THEN <<>> ELSE Head(lists) \o flat(Tail(lists))

\* .sort((a, b) => ...): Array.prototype.sort is stable, and the comparator
\* orders isPredefined entries first and ties everything else.
IsPre(r)  == r.isPredefined
NotPre(r) == ~r.isPredefined
\* A sort that is not stable: entries that tie come out reversed
sortPredefinedFirst_Unstable(list) ==
  LET ties == SelectSeq(list, NotPre)
  IN  SelectSeq(list, IsPre) \o [i \in 1..Len(ties) |-> ties[Len(ties) + 1 - i]]

sortPredefinedFirst(list) == SelectSeq(list, IsPre) \o SelectSeq(list, NotPre)

\* allResults when a failed adapter rejected instead of resolving to []
allResults_RejectOnFailure(call) ==
  IF call.failed # {} THEN <<>>
  ELSE SelectSeq(flat([i \in 1..Len(Adapters) |-> call.got[Adapters[i]]]), IsPre)
         \o SelectSeq(flat([i \in 1..Len(Adapters) |-> call.got[Adapters[i]]]), NotPre)

\* The list a joined call returns and caches
allResults(call) ==
  sortPredefinedFirst(flat([i \in 1..Len(Adapters) |-> call.got[Adapters[i]]]))

Range(seq) == {seq[i] : i \in 1..Len(seq)}

\* Every result the curated list, an adapter or the GitHub request can give
AllResults ==
  Range(mockData)
    \cup UNION {Range(TimerAdapterResults[q][t][l][a]) :
                  q \in AllQueries, t \in Times, l \in BOOLEAN,
                  a \in AdapterSet \ {"searchGitHub"}}
    \cup UNION {Range(GitHubResults[q][t][r]) :
                  q \in AllQueries, t \in Times, r \in AllResponses}

\* title.toLowerCase(), tabulated over the titles
LowerTitle == [title \in {r.title : r \in AllResults} |-> toLowerCase(title)]

\* combinedResults without the filter on the external results
combinedResults_NoFilter(predefinedResults, externalResults) ==
  predefinedResults \o externalResults

\* useSearch: combinedResults
combinedResults(predefinedResults, externalResults) ==
  LET preTitles == {LowerTitle[predefinedResults[i].title] :
                      i \in 1..Len(predefinedResults)}
      Fresh(extResult) == LowerTitle[extResult.title] \notin preTitles
  IN  predefinedResults \o SelectSeq(externalResults, Fresh)

Remove(seq, i) == SubSeq(seq, 1, i - 1) \o SubSeq(seq, i + 1, Len(seq))

\* What was last seen at the service's interface: the operation, its query,
\* whether it returned a list in that step, the list, and for a join the
\* call that joined.
NoCall == [caller |-> "none"]

\* extractCategories has not returned yet
NotReturned == [returned |-> FALSE, categories |-> <<>>]

\* For a login, the credentials given and the boolean login returned; for a
\* join, whether the cache already held an entry for the call's key
NoAttempt == [username |-> "", password |-> "", success |-> FALSE]

Observe(op, q, returns, list) ==
  [op |-> op, query |-> q, returns |-> returns, ret |-> list, call |-> NoCall,
   attempt |-> NoAttempt, replaced |-> FALSE]

Returned(key, list, timestamp) ==
  [k \in DOMAIN returned \cup {key} |->
     IF k = key THEN [results |-> list, timestamp |-> timestamp] ELSE returned[k]]

\* setAuth that stores the token and leaves the flag as it is
setAuth_TokenOnly(loggedIn, token) ==
  /\ userLoggedIn' = userLoggedIn
  /\ sessionToken' = IF loggedIn THEN token ELSE "null"
  /\ cache' = IF loggedIn THEN cache ELSE NoCache

\* setAuth that keeps the cache on logout
setAuth_KeepsCache(loggedIn, token) ==
  /\ userLoggedIn' = loggedIn
  /\ sessionToken' = IF loggedIn THEN token ELSE "null"
  /\ cache' = cache

\* setAuth(loggedIn, token)
setAuth(loggedIn, token) ==
  /\ userLoggedIn' = loggedIn
  /\ sessionToken' = IF loggedIn THEN token ELSE "null"
  /\ cache' = IF loggedIn THEN cache ELSE NoCache

\* login(username, password): nothing in its try block reads the
\* credentials or can throw, so it sets the state and returns true.
login(username, password) ==
  /\ setAuth(TRUE, "fake-session-token")
  /\ obs' = [Observe("login", "", FALSE, <<>>) EXCEPT
              !.attempt = [username |-> username, password |-> password,
                           success |-> TRUE]]
  /\ returned' = NoCache
  /\ UNCHANGED <<now, calls, fetches, hookVars, catVars>>

\* logout()
logout ==
  /\ setAuth(FALSE, "null")
  /\ obs' = Observe("logout", "", FALSE, <<>>)
  /\ returned' = NoCache
  /\ UNCHANGED <<now, calls, fetches, hookVars, catVars>>

\* Time passes.
Tick ==
  /\ now + TickMs <= MaxTicks * TickMs
  /\ now' = now + TickMs
  /\ UNCHANGED <<userLoggedIn, sessionToken, cache, calls, obs, returned, fetches, hookVars, catVars>>

\* The call record of a searchAll that missed the cache: the gated adapters
\* have read userLoggedIn and, when it is false, resolved to their teaser.
NewCall(q, key, caller, predefinedResults) ==
  LET early == IF userLoggedIn THEN {} ELSE GatedAdapters
  IN  [query |-> q, cacheKey |-> key, loggedIn |-> userLoggedIn,
       pending |-> AdapterSet \ early, failed |-> {},
       got |-> [a \in AdapterSet |->
                  IF a \in early
                  THEN Resolved(a, q, userLoggedIn, now, NetworkError)
                  ELSE <<>>],
       caller |-> caller, predefinedResults |-> predefinedResults]

\* What the caller does with the list searchAll returns to it: useSearch
\* merges it with its curated matches and shows the merge.
Deliver(caller, predefinedResults, externalResults) ==
  results' = IF caller = "hook"
             THEN combinedResults(predefinedResults, externalResults)
             ELSE results

\* searchAll(query) up to its first suspension: the empty-query return, the
\* cache hit, or the start of every adapter.
searchAllStart(q, caller, predefinedResults) ==
  IF IsEmptyQuery[q]
  THEN /\ obs' = Observe("empty", q, TRUE, <<>>)
       /\ Deliver(caller, predefinedResults, <<>>)
       /\ UNCHANGED <<userLoggedIn, sessionToken, cache, now, calls, returned, fetches>>
  ELSE LET cacheKey      == CacheKeys[q][userLoggedIn]
           cachedResults == getCachedResults(cacheKey)
       IN  IF cachedResults.found
           THEN /\ obs' = Observe("hit", q, TRUE, cachedResults.results)
                /\ returned' = Returned(cacheKey, cachedResults.results,
                                        cache[cacheKey].timestamp)
                /\ Deliver(caller, predefinedResults, cachedResults.results)
                /\ UNCHANGED <<userLoggedIn, sessionToken, cache, now, calls, fetches>>
           ELSE /\ fetches < MaxFetches
                /\ fetches' = fetches + 1
                /\ calls' = Append(calls, NewCall(q, cacheKey, caller, predefinedResults))
                /\ obs' = Observe("miss", q, FALSE, <<>>)
                /\ UNCHANGED <<userLoggedIn, sessionToken, cache, now, returned, results>>

\* searchAll(query) called through the service's public interface
searchAll(q) ==
  /\ searchAllStart(q, "api", <<>>)
  /\ UNCHANGED <<query, timer, debouncedQuery, runs, catVars, authVars>>

\* Promise.all resolving as soon as one of its promises has settled
AllSettled_Any(call) == call.pending # AdapterSet

\* await Promise.all([...]) resumes when every adapter promise has settled.
AllSettled(call) == call.pending = {}

\* The adapters in S of call i settle; when none is left pending,
\* Promise.all resolves and searchAll sorts, caches and returns, and a
\* useSearch caller merges the list with its curated results.
Settle(i, S, response) ==
  LET call    == calls[i]
      settled == [call EXCEPT
                    !.pending = call.pending \ S,
                    !.failed = call.failed \cup
                      {a \in S : Failed(a, call.query, call.loggedIn, response)},
                    !.got = [a \in AdapterSet |->
                               IF a \in S
                               THEN Resolved(a, call.query, call.loggedIn, now, response)
                               ELSE call.got[a]]]
  IN  /\ S # {}
      /\ S \subseteq call.pending
      /\ IF ~AllSettled(settled)
         THEN /\ calls' = [calls EXCEPT ![i] = settled]
              /\ obs' = Observe("settle", call.query, FALSE, <<>>)
              /\ UNCHANGED <<cache, returned, results>>
         ELSE /\ calls' = Remove(calls, i)
              /\ cache' = cacheResults(call.cacheKey, allResults(settled))
              /\ obs' = [Observe("join", call.query, TRUE, allResults(settled))
                           EXCEPT !.call = settled,
                                  !.replaced = call.cacheKey \in DOMAIN cache]
              /\ returned' = Returned(call.cacheKey, allResults(settled), now)
              /\ Deliver(call.caller, call.predefinedResults, allResults(settled))
      /\ UNCHANGED <<userLoggedIn, sessionToken, now, fetches, query, timer, debouncedQuery, runs, catVars, authVars>>

-----------------------------------------------------------------------------
(* The service under calls of its public interface                         *)

Init ==
  /\ userLoggedIn = FALSE
  /\ sessionToken = "null"
  /\ cache = NoCache
  /\ now = 0
  /\ calls = <<>>
  /\ obs = Observe("init", "", FALSE, <<>>)
  /\ returned = NoCache
  /\ query = ""
  /\ timer = [pending |-> TRUE, value |-> ""]
  /\ debouncedQuery = ""
  /\ results = <<>>
  /\ runs = <<>>
  /\ fetches = 0
  /\ catArgs = [title |-> "", snippet |-> "", isDeveloper |-> FALSE]
  /\ catResult = NotReturned
  /\ isLoggedIn = FALSE
  /\ refresh = {}
  /\ needsLogin = FALSE
  /\ opened = <<>>

Next ==
  \/ \E c \in Credentials : login(c[1], c[2])
  \/ logout
  \/ Tick
  \/ \E q \in QueryInputs : searchAll(q)
  \/ \E i \in 1..Len(calls), response \in GitHubResponses :
       Settle(i, calls[i].pending, response)

Spec == Init /\ [][Next]_vars

-----------------------------------------------------------------------------
(* One searchAll at a time, its adapters settling one by one in any order  *)

SearchAlone(q) ==
  /\ calls = <<>>
  /\ searchAll(q)

SettleOne(i, a, response) == Settle(i, {a}, response)

NextFanOut ==
  \/ login("alice", "secret")
  \/ logout
  \/ \E q \in FanOutQueries : SearchAlone(q)
  \/ \E i \in 1..Len(calls) :
       \E a \in calls[i].pending, response \in FanOutGitHubResponses :
         SettleOne(i, a, response)

SpecFanOut == Init /\ [][NextFanOut]_vars

-----------------------------------------------------------------------------
(* useSearch: the search box, its debounce and its search effect, used     *)
(* without logging in                                                      *)

\* Effect runs that may wait for performSearch at once
MaxRuns == 2

\* setQuery whose debounce effect has no cleanup: the timeout set for the
\* earlier value stays and fires
setQuery_KeepsTimer(newQuery) ==
  /\ query' = newQuery
  /\ timer' = IF newQuery # query /\ ~timer.pending
              THEN [pending |-> TRUE, value |-> newQuery]
              ELSE timer

\* setQuery(newQuery); when the value changes the debounce effect clears
\* its timer and starts a new one.
setQuery(newQuery) ==
  /\ query' = newQuery
  /\ timer' = IF newQuery # query THEN [pending |-> TRUE, value |-> newQuery]
              ELSE timer

\* The user types: the input's onChange calls handleSearch.
handleSearch(newQuery) ==
  /\ newQuery # query
  /\ setQuery(newQuery)
  /\ UNCHANGED <<svcVars, debouncedQuery, results, runs, catVars, authVars>>

\* clearSearch()
clearSearch ==
  /\ query # "" \/ results # <<>>
  /\ setQuery("")
  /\ results' = <<>>
  /\ UNCHANGED <<svcVars, debouncedQuery, runs, catVars, authVars>>

\* The debounce timer fires: setDebouncedQuery(query).  When the value
\* changes the search effect runs: it clears the results for a blank query
\* and otherwise calls performSearch, which waits for its delay.  The login
\* status effect runs too: it copies the service's flag, and its
\* handleSearch(debouncedQuery) sets the query to the value it already has.
DebounceFires ==
  /\ timer.pending
  /\ timer' = [timer EXCEPT !.pending = FALSE]
  /\ debouncedQuery' = timer.value
  /\ IF timer.value = debouncedQuery
     THEN UNCHANGED <<results, runs>>
     ELSE IF IsEmptyQuery[timer.value]
     THEN results' = <<>> /\ UNCHANGED runs
     ELSE /\ Len(runs) < MaxRuns
          /\ runs' = Append(runs, timer.value)
          /\ UNCHANGED results
  /\ isLoggedIn' = IF timer.value = debouncedQuery THEN isLoggedIn ELSE userLoggedIn
  /\ UNCHANGED <<svcVars, query, catVars, refresh, needsLogin, opened>>

PredefinedResults == [q \in AllQueries |-> performSearch(q)]

\* performSearch of the oldest waiting effect run returns, and the run
\* calls searchAll: a cached list is merged and shown in the same step.
SearchEffect ==
  /\ runs # <<>>
  /\ searchAllStart(Head(runs), "hook", PredefinedResults[Head(runs)])
  /\ runs' = Tail(runs)
  /\ UNCHANGED <<query, timer, debouncedQuery, catVars, authVars>>

NextHook ==
  \/ \E newQuery \in TypedQueries : handleSearch(newQuery)
  \/ clearSearch
  \/ DebounceFires
  \/ SearchEffect
  \/ \E i \in 1..Len(calls), response \in HookGitHubResponses :
       Settle(i, calls[i].pending, response)

SpecHook == Init /\ [][NextHook]_vars

-----------------------------------------------------------------------------
(* useSearch with one searchAll at a time, its adapters settling one by    *)
(* one in any order                                                        *)

SearchEffectAlone ==
  /\ calls = <<>>
  /\ SearchEffect

\* The texts typed: one with three curated matches, and the empty box
OrderQueries == {"", "best practices"}

NextOrder ==
  \/ \E newQuery \in OrderQueries : handleSearch(newQuery)
  \/ DebounceFires
  \/ SearchEffectAlone
  \/ \E i \in 1..Len(calls) :
       \E a \in calls[i].pending, response \in HookGitHubResponses :
         SettleOne(i, a, response)

SpecOrder == Init /\ [][NextOrder]_vars

-----------------------------------------------------------------------------
(* Properties of the service                                               *)

\* The results the gated adapters give an unauthenticated call (teasers)
\* and an authenticated one
GatedTeasers ==
  UNION {Range(TimerAdapterResults[q][t][FALSE][a]) :
           q \in AllQueries, t \in Times, a \in GatedAdapters}

GatedFull ==
  UNION {Range(TimerAdapterResults[q][t][TRUE][a]) :
           q \in AllQueries, t \in Times, a \in GatedAdapters}

BlankQueries == {q \in AllQueries : trim(q) = ""}

NormalizedQuery == [q \in AllQueries |-> trim(toLowerCase(q))]

\* The step is a searchAll call with a query that is not blank.
SearchStep == obs'.op \in {"hit", "miss"}

\* The key of a searchAll(q) issued now: lowercase-trimmed query and flag
KeyNow(q) == NormalizedQuery[q] \o "-" \o (IF userLoggedIn THEN "auth" ELSE "noauth")

\* The cache holds an entry for key k that is inside its expiry window.
FreshEntry(k) == k \in DOMAIN cache /\ now - cache[k].timestamp < cacheDuration

\* C1: logout leaves the cache empty, and the searchAll that follows a
\* logout (only time passing between them) misses the cache: it starts the
\* adapters, and the gated adapters have answered with teasers.
C1_LogoutEmptiesCache ==
  [][ /\ obs'.op = "logout" => cache' = NoCache
      /\ (obs.op = "logout" /\ SearchStep) =>
           /\ obs'.op = "miss"
           /\ Len(calls') = Len(calls) + 1
           /\ \A a \in GatedAdapters :
                LET got == calls'[Len(calls')].got[a]
                IN  Len(got) = 1 /\ got[1] \in GatedTeasers
    ]_vars

\* C1 witness: an earlier call has completed and cached its list, a logout
\* has emptied the cache, and a search has missed and started the adapters.
C1_Witness ==
  /\ obs.op = "miss"
  /\ fetches = 2
  /\ Len(calls) = 1
  /\ cache = NoCache
  /\ ~userLoggedIn

\* C2: a searchAll(q) issued while the last list returned for its key
\* (since the last login or logout) is inside the expiry window of its cache
\* entry returns that same list.
C2_RepeatedSearchIdentical ==
  [][ \A q \in AllQueries :
        (SearchStep /\ obs'.query = q /\ KeyNow(q) \in DOMAIN returned
           /\ now - returned[KeyNow(q)].timestamp < cacheDuration) =>
          /\ obs'.returns
          /\ obs'.ret = returned[KeyNow(q)].results
    ]_vars

\* C2 witness: a hit that returns the list an earlier call fetched, after
\* time has passed.
C2_Witness ==
  /\ obs.op = "hit"
  /\ fetches >= 1
  /\ KeyNow(obs.query) \in DOMAIN returned
  /\ obs.ret = returned[KeyNow(obs.query)].results
  /\ now > returned[KeyNow(obs.query)].timestamp

\* A list computed while authenticated holds no teaser; one computed while
\* unauthenticated holds no full gated result.
ComputedUnder(list, loggedIn) ==
  IF loggedIn THEN Range(list) \cap GatedTeasers = {}
  ELSE Range(list) \cap GatedFull = {} /\ Range(list) \cap GatedTeasers # {}

\* C3: the key is the lowercase-trimmed query joined with the flag: a list
\* computed under one flag is never returned to a search made under the
\* other, and distinct (normalized query, flag) pairs have distinct keys.
C3_KeySeparatesAuth ==
  /\ obs.op = "hit" => ComputedUnder(obs.ret, userLoggedIn)
  /\ \A q1 \in AllQueries, q2 \in AllQueries, l1 \in BOOLEAN, l2 \in BOOLEAN :
       (CacheKeys[q1][l1] = CacheKeys[q2][l2])
         <=> (NormalizedQuery[q1] = NormalizedQuery[q2] /\ l1 = l2)
  /\ \A i \in 1..Len(calls) :
       calls[i].cacheKey = CacheKeys[calls[i].query][calls[i].loggedIn]

\* C3 witness: both an authenticated and an unauthenticated list are cached
\* for the same query text, and a search has just been served from the cache.
C3_Witness ==
  /\ obs.op = "hit"
  /\ userLoggedIn
  /\ {"hr-auth", "hr-noauth"} \subseteq DOMAIN cache

\* C8: searchAll with a query that is empty after trimming returns [] in
\* the same step, starts no adapter and leaves the cache and the
\* authentication state as they are.
C8_EmptyQueryReturnsEmpty ==
  [][ (obs'.op \in {"empty", "hit", "miss"} /\ obs'.query \in BlankQueries) =>
        /\ obs'.op = "empty"
        /\ obs'.returns /\ obs'.ret = <<>>
        /\ UNCHANGED <<cache, calls, userLoggedIn, sessionToken, returned>>
    ]_vars

\* C8 witness: a whitespace-only query has been answered while the cache
\* holds an entry.
C8_Witness ==
  /\ obs.op = "empty"
  /\ obs.query = " "
  /\ obs.ret = <<>>
  /\ cache # NoCache

\* C9: a searchAll whose key has an entry inside the expiry window returns
\* that entry's list as it is, starts no adapter and writes nothing to the
\* cache.
C9_CacheHitVerbatim ==
  [][ \A q \in AllQueries :
        (SearchStep /\ obs'.query = q /\ FreshEntry(KeyNow(q))) =>
          /\ obs'.op = "hit"
          /\ obs'.ret = cache[KeyNow(q)].results
          /\ UNCHANGED <<cache, calls, fetches>>
    ]_vars

\* C9 witness: a hit on an entry written under a differently spelled query
\* with the same key.
C9_Witness ==
  /\ obs.op = "hit"
  /\ obs.query = " HR"
  /\ \E r \in Range(obs.ret) : r.title = "HR Service Delivery Guide - hr"

\* A teaser tells the user to log in for the full content.
Teasers ==
  {r \in AllResults : includes(r.snippet, "Login required to view full content")}

IsTeaserOnly(list) == Len(list) = 1 /\ list[1] \in Teasers

\* The switch of a gated adapter a in call c
TwoStateSwitch(c, a) ==
  IF ~c.loggedIn
  THEN a \notin c.pending /\ IsTeaserOnly(c.got[a])
  ELSE \/ a \in c.pending /\ c.got[a] = <<>>
       \/ /\ Range(c.got[a]) \cap Teasers = {}
          /\ IF a \in c.failed THEN c.got[a] = <<>> ELSE Len(c.got[a]) = 2

\* C4: a gated adapter called while the user is not logged in has answered
\* within the call, with exactly one teaser; called while logged in it takes
\* its delayed full branch and gives its two full results and no teaser (no
\* result when it fails).  The list an unauthenticated search returns holds
\* exactly one teaser of each gated adapter, an authenticated one none.
C4_GatedTwoStateSwitch ==
  /\ \A i \in 1..Len(calls) : \A a \in GatedAdapters : TwoStateSwitch(calls[i], a)
  /\ obs.op = "join" =>
       /\ \A a \in GatedAdapters : TwoStateSwitch(obs.call, a)
       /\ \A a \in GatedAdapters :
            Cardinality({i \in 1..Len(obs.ret) : obs.ret[i] \in Range(obs.call.got[a])
                                                  /\ obs.ret[i] \in Teasers})
              = IF obs.call.loggedIn THEN 0 ELSE 1
       /\ Cardinality({i \in 1..Len(obs.ret) : obs.ret[i] \in Teasers})
            = IF obs.call.loggedIn THEN 0 ELSE Cardinality(GatedAdapters)

\* C4 witness: an unauthenticated search has cached its list with the
\* teasers, and an authenticated search has then returned the full results.
C4_Witness ==
  /\ obs.op = "join"
  /\ obs.call.loggedIn
  /\ Len(obs.call.got["searchNowCreate"]) = 2
  /\ Len(obs.call.got["searchTechNotes"]) = 2
  /\ "hr-noauth" \in DOMAIN cache
  /\ \E i \in 1..Len(cache["hr-noauth"].results) :
       /\ cache["hr-noauth"].results[i] \in Teasers
       /\ cache["hr-noauth"].results[i].source = NowCreate

\* C10: when a search joins, every adapter that failed has contributed the
\* empty sequence, every adapter that did not fail its results, the search
\* has returned a list, and the list holds the results of exactly the
\* adapters that did not fail.
C10_FailOpen ==
  obs.op = "join" =>
    LET got    == obs.call.got
        failed == obs.call.failed
        ok     == AdapterSet \ failed
    IN  /\ obs.returns
        /\ \A a \in failed : got[a] = <<>>
        /\ \A a \in ok : got[a] # <<>>
        /\ Range(obs.ret) = UNION {Range(got[a]) : a \in ok}
        /\ \A a \in ok : \A i \in 1..Len(got[a]) :
             Cardinality({j \in 1..Len(obs.ret) : obs.ret[j] = got[a][i]}) = 1
        /\ cache[obs.call.cacheKey].results = obs.ret

\* C10 witness: a search has joined with every adapter but one failed and
\* has returned that adapter's results, after a search in which only the
\* GitHub request failed has cached the results of the other adapters.
C10_Witness ==
  /\ obs.op = "join"
  /\ Cardinality(obs.call.failed) = Cardinality(AdapterSet) - 1
  /\ Len(obs.ret) > 0
  /\ \E k \in DOMAIN cache :
       /\ k # obs.call.cacheKey
       /\ Len(cache[k].results) > Len(obs.ret)
       /\ \A i \in 1..Len(cache[k].results) : cache[k].results[i].source # GitHub

-----------------------------------------------------------------------------
(* Properties of the list the page shows                                   *)

\* The step shows the merge of a run's curated matches with the list that
\* searchAll has returned to it, from the cache or at the join.
DeliveryStep ==
  \/ Len(calls') < Len(calls) /\ obs'.call.caller = "hook"
  \/ Len(runs') < Len(runs) /\ obs'.op = "hit"

Curated(r) == r \in Range(mockData)

DedupLaw(pre, ext, shown) ==
  \A i \in 1..Len(pre), j \in 1..Len(ext) :
    LowerTitle[pre[i].title] = LowerTitle[ext[j].title] =>
      LET same == {k \in 1..Len(shown) :
                     LowerTitle[shown[k].title] = LowerTitle[pre[i].title]}
      IN  /\ Cardinality(same) = 1
          /\ \A k \in same :
               /\ shown[k] = pre[i]
               /\ Curated(shown[k])
               /\ \A m \in 1..Len(shown) : ~Curated(shown[m]) => k < m

\* C5: when a curated match and a result of a source adapter have the same
\* title ignoring case, the list shown for the query holds exactly one entry
\* with that title, it is the curated one, and it stands before every entry
\* that does not come from the curated list.
C5_DedupLaw ==
  [][DeliveryStep => DedupLaw(PredefinedResults[obs'.query], obs'.ret, results')]_vars

\* C5 witness: the GitHub request has returned a repository named like a
\* curated entry in other letter case, and the list is shown.
C5_Witness ==
  /\ obs.op = "join"
  /\ obs.call.caller = "hook"
  /\ \E j \in 1..Len(obs.ret) :
       /\ obs.ret[j].source = GitHub
       /\ \E i \in 1..Len(obs.call.predefinedResults) :
            /\ LowerTitle[obs.ret[j].title] = LowerTitle[obs.call.predefinedResults[i].title]
            /\ obs.ret[j].title # obs.call.predefinedResults[i].title
  /\ results = combinedResults(obs.call.predefinedResults, obs.ret)
  /\ Len(results) < Len(obs.call.predefinedResults) + Len(obs.ret)

PredefinedFirst(list) ==
  \A i \in 1..Len(list), j \in 1..Len(list) :
    (list[i].isPredefined /\ ~list[j].isPredefined) => i < j

\* C6: in every list delivered for a query (returned by searchAll, shown by
\* the page) every entry with isPredefined true stands before every entry
\* with isPredefined false.
C6_PredefinedFirst ==
  /\ PredefinedFirst(results)
  /\ obs.returns => PredefinedFirst(obs.ret)

NoEqualTitles(list) ==
  \A i \in 1..Len(list), j \in 1..Len(list) :
    i # j => LowerTitle[list[i].title] # LowerTitle[list[j].title]

\* C7: the list shown for a query holds no two entries whose titles are
\* equal ignoring case, whether they come from the curated list or from the
\* source adapters.
C7_NoDuplicateTitles == NoEqualTitles(results)

-----------------------------------------------------------------------------
(* Properties of login                                                     *)

C12_LoginThenAuthenticatedSearch ==
  /\ (obs.op = "login" /\ obs.attempt.username # "" /\ obs.attempt.password # "") =>
       /\ obs.attempt.success
       /\ userLoggedIn
       /\ sessionToken # "null"
  /\ (userLoggedIn /\ obs.op = "miss") =>
       LET call == calls[Len(calls)]
       IN  /\ call.query = obs.query
           /\ call.cacheKey = NormalizedQuery[obs.query] \o "-auth"
           /\ call.loggedIn
           /\ GatedAdapters \subseteq call.pending
           /\ \A a \in GatedAdapters : call.got[a] = <<>>
  /\ (userLoggedIn /\ obs.op = "hit") =>
       /\ Range(obs.ret) \cap Teasers = {}
       /\ (NormalizedQuery[obs.query] \o "-auth") \in DOMAIN cache
       /\ obs.ret = cache[NormalizedQuery[obs.query] \o "-auth"].results

\* C12 witness: after login("alice", "secret") a search has missed and
\* started its adapters while the unauthenticated list for the same query is
\* still cached.
C12_Witness ==
  /\ userLoggedIn
  /\ obs.op = "miss"
  /\ calls[Len(calls)].cacheKey = "hr-auth"
  /\ "hr-noauth" \in DOMAIN cache

-----------------------------------------------------------------------------
(* Properties of the join                                                  *)

\* The step writes a cache entry.
CacheWrite ==
  \E k \in DOMAIN cache' : k \notin DOMAIN cache \/ cache'[k] # cache[k]

\* The step is the join of a call of which every adapter has settled: the
\* call returns and caches the list made of every adapter's contribution.
JoinStep ==
  /\ obs'.op = "join"
  /\ obs'.returns
  /\ \E i \in 1..Len(calls) :
       /\ calls' = Remove(calls, i)
       /\ obs'.call.cacheKey = calls[i].cacheKey
       /\ calls[i].pending # {}
  /\ obs'.call.pending = {}
  /\ Range(obs'.ret) = UNION {Range(obs'.call.got[a]) : a \in AdapterSet}
  /\ cache' = cacheResults(obs'.call.cacheKey, obs'.ret)

\* C13: a step in which a searchAll that missed returns a list, or in which
\* a cache entry is written, is the join of a call whose adapters have all
\* settled; while an adapter is pending the call returns nothing and writes
\* nothing.
C13_AllOrNothingJoin ==
  [][ (CacheWrite \/ (obs' # obs /\ obs'.returns /\ obs'.op \notin {"hit", "empty"}))
        => JoinStep ]_vars

\* C13 witness: seven adapters of a call have settled, one is pending, and
\* nothing is cached for the call's key.
C13_Witness ==
  /\ obs.op = "settle"
  /\ Len(calls) = 1
  /\ Cardinality(calls[1].pending) = 1
  /\ \E a \in AdapterSet : calls[1].got[a] # <<>>
  /\ calls[1].cacheKey \notin DOMAIN cache

-----------------------------------------------------------------------------
(* Properties of the order of a response                                   *)

\* Where an entry of a shown list comes from: <<0, i>> for the curated entry
\* mockData[i], <<n, j>> for the j-th result of the n-th adapter of the call.
Rank(r, got) ==
  IF Curated(r)
  THEN <<0, CHOOSE i \in 1..Len(mockData) : mockData[i] = r>>
  ELSE CHOOSE p \in (1..Len(Adapters)) \X (1..5) :
         /\ p[2] <= Len(got[Adapters[p[1]]])
         /\ got[Adapters[p[1]]][p[2]] = r

Before(p, q) == p[1] < q[1] \/ (p[1] = q[1] /\ p[2] < q[2])

InDeclaredOrder(list, got) ==
  \A i \in 1..Len(list), j \in 1..Len(list) :
    i < j => Before(Rank(list[i], got), Rank(list[j], got))

\* C14: whatever the order in which the adapters of a call settle, the list
\* searchAll returns is the adapters' results in the order of declaration,
\* each adapter's own order kept, and the list the page shows is the curated
\* matches in the order of the curated list followed by adapter results in
\* that same order.
C14_DeterministicOrder ==
  obs.op = "join" =>
    /\ obs.ret = flat([n \in 1..Len(Adapters) |-> obs.call.got[Adapters[n]]])
    /\ results # <<>> =>
         /\ InDeclaredOrder(results, obs.call.got)
         /\ SelectSeq(results, Curated) = obs.call.predefinedResults
         /\ \A r \in Range(obs.ret) :
              (\A c \in Range(obs.call.predefinedResults) :
                 LowerTitle[c.title] # LowerTitle[r.title]) => r \in Range(results)

\* C14 witness: a list with three curated matches and the results of every
\* adapter, two of them from GitHub, is shown.
C14_Witness ==
  /\ obs.op = "join"
  /\ Len(SelectSeq(results, Curated)) = 3
  /\ \A a \in AdapterSet : \E r \in Range(obs.call.got[a]) : r \in Range(results)
  /\ Len(obs.call.got["searchGitHub"]) = 2

-----------------------------------------------------------------------------
(* Properties of the expiry of cache entries                               *)

\* C15: a searchAll is served from the cache exactly when its key has an
\* entry with now - timestamp < 30 minutes; a searchAll that finds the
\* entry at or past the window misses, starts the adapters and leaves the
\* old entry in place until its join overwrites it with the time of the
\* join; the passing of time alone removes nothing.
C15_ExpiryAtRead ==
  [][ /\ \A q \in AllQueries :
           (SearchStep /\ now' = now /\ obs'.query = q) =>
             /\ (obs'.op = "hit") <=>
                  (KeyNow(q) \in DOMAIN cache
                     /\ now - cache[KeyNow(q)].timestamp < 1000 * 60 * 30)
             /\ obs'.op = "miss" =>
                  /\ Len(calls') = Len(calls) + 1
                  /\ calls'[Len(calls')].pending # {}
                  /\ cache' = cache
      /\ Len(calls') < Len(calls) =>
           cache'[obs'.call.cacheKey] = [results |-> obs'.ret, timestamp |-> now]
      /\ now' # now => cache' = cache
    ]_vars

\* C15 witness: a search has found its key's entry exactly 30 minutes old
\* and has missed.
C15_Witness ==
  /\ obs.op = "miss"
  /\ KeyNow(obs.query) \in DOMAIN cache
  /\ now - cache[KeyNow(obs.query)].timestamp >= 1000 * 60 * 30
  /\ calls # <<>>

-----------------------------------------------------------------------------
(* ServiceNowDataService.ts: extractCategories                             *)

\* The tags of the product keyword groups that occur in the text, in the
\* order of the if statements
ProductKeywordTags(text) ==
  LET has(k) == includes(text, k)
      tag(found, name) == IF found THEN <<Tag(Product, name)>> ELSE <<>>
  IN  tag(has("itsm") \/ has("incident") \/ has("problem") \/ has("change"), "ITSM")
      \o tag(has("hrsd") \/ has("hr service") \/ has("human resources"), "HRSD")
      \o tag(has("csm") \/ has("customer service"), "CSM")
      \o tag(has("itom") \/ has("operations management"), "ITOM")
      \o tag(has("cmdb") \/ has("configuration management"), "CMDB")
      \o tag(has("flow") \/ has("integration hub"), "IntegrationHub")
      \o tag(has("security") \/ has("iam") \/ has("governance"), "Security")

\* Product tags without the fallback
ProductTags_NoFallback(text) == ProductKeywordTags(text)

\* Product categorization as an if / else-if chain
ProductTags_FirstMatch(text) ==
  LET categories == ProductKeywordTags(text)
  IN  IF Len(categories) = 0 THEN <<Tag(Product, "Platform")>>
      ELSE <<Head(categories)>>

\* Product categorization, with the Platform tag when no group matched
ProductTags(text) ==
  LET categories == ProductKeywordTags(text)
  IN  IF Len(categories) = 0
         \/ \A i \in 1..Len(categories) : categories[i].type # Product
      THEN Append(categories, Tag(Product, "Platform"))
      ELSE categories

\* Persona categorization with independent if statements
PersonaTags_Cumulative(text, isDeveloper) ==
  LET has(k) == includes(text, k)
      tag(found, name) == IF found THEN <<Tag(Persona, name)>> ELSE <<>>
      matched ==
        tag(isDeveloper \/ has("script") \/ has("code") \/ has("api") \/ has("developer"),
            "Developer")
        \o tag(has("admin") \/ has("configure"), "Administrator")
        \o tag(has("process") \/ has("workflow"), "Process Owner")
  IN  IF matched = <<>> THEN <<Tag(Persona, "All")>> ELSE matched

\* Persona categorization
PersonaTags(text, isDeveloper) ==
  LET has(k) == includes(text, k)
  IN  IF isDeveloper \/ has("script") \/ has("code") \/ has("api") \/ has("developer")
      THEN <<Tag(Persona, "Developer")>>
      ELSE IF has("admin") \/ has("configure")
      THEN <<Tag(Persona, "Administrator")>>
      ELSE IF has("process") \/ has("workflow")
      THEN <<Tag(Persona, "Process Owner")>>
      ELSE <<Tag(Persona, "All")>>

\* Use case categorization with independent if statements
UseCaseTags_Cumulative(text) ==
  LET has(k) == includes(text, k)
      tag(found, name) == IF found THEN <<Tag(UseCase, name)>> ELSE <<>>
  IN  tag(has("integration") \/ has("connect"), "Integration")
      \o tag(has("report") \/ has("dashboard"), "Reporting")
      \o tag(has("workflow") \/ has("automation"), "Workflow Automation")

\* Use case categorization
UseCaseTags(text) ==
  LET has(k) == includes(text, k)
  IN  IF has("integration") \/ has("connect")
      THEN <<Tag(UseCase, "Integration")>>
      ELSE IF has("report") \/ has("dashboard")
      THEN <<Tag(UseCase, "Reporting")>>
      ELSE IF has("workflow") \/ has("automation")
      THEN <<Tag(UseCase, "Workflow Automation")>>
      ELSE <<>>

extractCategories(title, snippet, isDeveloper) ==
  LET text == toLowerCase(title \o " " \o snippet)
  IN  ProductTags(text) \o PersonaTags(text, isDeveloper) \o UseCaseTags(text)

\* The titles and snippets extractCategories is applied to
CatTitles ==
  {"", "HR", "ITSM Incident", "REST API", "Admin Workflow", "Flow Report",
   "Security Dashboard", "Connect CMDB"}

CatSnippets ==
  {"", "service desk", "configure the process", "script automation",
   "customer service integration", "operations management", "plain text",
   "developer code for human resources", "approval process"}

InitCat ==
  /\ userLoggedIn = FALSE
  /\ sessionToken = "null"
  /\ cache = NoCache
  /\ now = 0
  /\ calls = <<>>
  /\ obs = Observe("init", "", FALSE, <<>>)
  /\ returned = NoCache
  /\ query = ""
  /\ timer = [pending |-> TRUE, value |-> ""]
  /\ debouncedQuery = ""
  /\ results = <<>>
  /\ runs = <<>>
  /\ fetches = 0
  /\ catArgs \in [title : CatTitles, snippet : CatSnippets, isDeveloper : BOOLEAN]
  /\ catResult = NotReturned
  /\ isLoggedIn = FALSE
  /\ refresh = {}
  /\ needsLogin = FALSE
  /\ opened = <<>>

\* extractCategories(title, snippet, isDeveloper) returns
Categorize ==
  /\ ~catResult.returned
  /\ catResult' = [returned |-> TRUE,
                   categories |-> extractCategories(catArgs.title, catArgs.snippet,
                                                    catArgs.isDeveloper)]
  /\ UNCHANGED <<svcVars, hookVars, catArgs>>

NextCat == Categorize

SpecCat == InitCat /\ [][NextCat]_vars

OfType(categories, type) == {i \in 1..Len(categories) : categories[i].type = type}

\* C16: whatever the title, the snippet and the developer hint,
\* extractCategories returns a list that is not empty and holds at least one
\* Product tag and exactly one Persona tag.
C16_CategorizerTotality ==
  catResult.returned =>
    /\ Len(catResult.categories) > 0
    /\ Cardinality(OfType(catResult.categories, Product)) >= 1
    /\ Cardinality(OfType(catResult.categories, Persona)) = 1

\* C16 witness: a text without any product keyword has been categorized.
C16_Witness ==
  /\ catResult.returned
  /\ catArgs.title = ""
  /\ catArgs.snippet = "plain text"
  /\ Tag(Product, "Platform") \in Range(catResult.categories)

-----------------------------------------------------------------------------
\* C17: every result record of every response, whether a curated entry, an
\* adapter result or a gated teaser, carries at least one category of kind
\* Product.
HasProduct(r) == OfType(r.categories, Product) # {}

C17_EveryResultHasProduct ==
  /\ obs.returns => \A i \in 1..Len(obs.ret) : HasProduct(obs.ret[i])
  /\ \A i \in 1..Len(results) : HasProduct(results[i])

-----------------------------------------------------------------------------
\* An entry produced under the authenticated state: stored under an
\* authenticated key, or holding full results of a gated adapter
ProducedAuthenticated(k) ==
  \/ \E q \in AllQueries : k = CacheKeys[q][TRUE]
  \/ Range(cache[k].results) \cap GatedFull # {}

\* C18: once logout has completed, the cache holds no entry produced under
\* the authenticated state, also when a searchAll that started while
\* authenticated only finishes, and writes the cache, after the logout.
C18_NoAuthenticatedEntryAfterLogout ==
  ~userLoggedIn => \A k \in DOMAIN cache : ~ProducedAuthenticated(k)

-----------------------------------------------------------------------------
UnauthenticatedKeys == {CacheKeys[q][FALSE] : q \in AllQueries}
AuthenticatedKeys   == {CacheKeys[q][TRUE] : q \in AllQueries}

\* C19: however login, logout and searches in flight interleave, an entry
\* stored under an unauthenticated key holds gated teasers and no full gated
\* result, an entry stored under an authenticated key holds full gated
\* results and no teaser, and every call uses one flag value for its key and
\* for its gated adapters.
C19_KeyFlagMatchesGateFlag ==
  /\ \A k \in DOMAIN cache :
       LET entry == Range(cache[k].results)
       IN  /\ k \in UnauthenticatedKeys \cup AuthenticatedKeys
           /\ k \in UnauthenticatedKeys =>
                /\ entry \cap GatedTeasers # {}
                /\ entry \cap GatedFull = {}
           /\ k \in AuthenticatedKeys =>
                /\ entry \cap GatedFull # {}
                /\ entry \cap (GatedTeasers \cup Teasers) = {}
  /\ \A i \in 1..Len(calls) :
       /\ calls[i].cacheKey = CacheKeys[calls[i].query][calls[i].loggedIn]
       /\ \A a \in GatedAdapters :
            IF calls[i].loggedIn
            THEN Range(calls[i].got[a]) \cap (GatedTeasers \cup Teasers) = {}
            ELSE IsTeaserOnly(calls[i].got[a])

\* C19 witness: a call that started while logged in wrote its entry after the
\* logout, next to the entry of a call made logged out.
C19_Witness ==
  /\ ~userLoggedIn
  /\ obs.op = "join"
  /\ obs.call.loggedIn
  /\ CacheKeys["hr"][TRUE] \in DOMAIN cache
  /\ CacheKeys["hr"][FALSE] \in DOMAIN cache

-----------------------------------------------------------------------------
(* useSearch with the login modal and the logout button                    *)

\* The texts typed: one with a curated match, and the empty box
LoginQueries == {"", "cmdb"}

\* LoginModal.handleSubmit: with both fields filled it awaits
\* dataService.login and calls onSuccess, which is handleLoginSuccess:
\* setIsLoggedIn(true) and, with a debounced query, a timeout that will call
\* handleSearch(debouncedQuery), and setNeedsLogin(false).  isLoggedIn has changed, so the login
\* status effect runs and calls handleSearch(debouncedQuery) as well.
handleSubmit(username, password) ==
  /\ ~isLoggedIn
  /\ username # "" /\ password # ""
  /\ setAuth(TRUE, "fake-session-token")
  /\ obs' = [Observe("login", "", FALSE, <<>>) EXCEPT
              !.attempt = [username |-> username, password |-> password,
                           success |-> TRUE]]
  /\ returned' = NoCache
  /\ isLoggedIn' = TRUE
  /\ needsLogin' = FALSE
  /\ refresh' = IF debouncedQuery # "" THEN refresh \cup {debouncedQuery} ELSE refresh
  /\ IF debouncedQuery # ""
     THEN setQuery(debouncedQuery)
     ELSE UNCHANGED <<query, timer>>
  /\ UNCHANGED <<now, calls, fetches, debouncedQuery, results, runs, catVars, opened>>

\* The timeout of handleLoginSuccess fires: handleSearch(debouncedQuery),
\* with the debounced query of the render that set the timeout
RefreshFires(q) ==
  /\ q \in refresh
  /\ refresh' = refresh \ {q}
  /\ setQuery(q)
  /\ UNCHANGED <<svcVars, debouncedQuery, results, runs, catVars, isLoggedIn, needsLogin, opened>>

\* handleLogout(): dataService.logout(), setIsLoggedIn(false) and, with a
\* debounced query, handleSearch(debouncedQuery)
handleLogout ==
  /\ isLoggedIn
  /\ setAuth(FALSE, "null")
  /\ obs' = Observe("logout", "", FALSE, <<>>)
  /\ returned' = NoCache
  /\ isLoggedIn' = FALSE
  /\ IF debouncedQuery # ""
     THEN setQuery(debouncedQuery)
     ELSE UNCHANGED <<query, timer>>
  /\ UNCHANGED <<now, calls, fetches, debouncedQuery, results, runs, refresh, catVars, needsLogin, opened>>

SettleCall == \E i \in 1..Len(calls) : Settle(i, calls[i].pending, NotOk)

NextLogin ==
  \/ \E newQuery \in LoginQueries : handleSearch(newQuery)
  \/ DebounceFires
  \/ SearchEffect
  \/ SettleCall
  \/ \E c \in Credentials : handleSubmit(c[1], c[2])
  \/ \E q \in LoginQueries : RefreshFires(q)
  \/ handleLogout

\* Timers fire and promises settle; the user may stop typing, logging in
\* and logging out at any moment.
SpecLogin ==
  /\ Init
  /\ [][NextLogin]_vars
  /\ WF_vars(DebounceFires)
  /\ WF_vars(SearchEffect)
  /\ WF_vars(SettleCall)
  /\ WF_vars(\E q \in LoginQueries : RefreshFires(q))

\* The user is logged in and the text of the box is the debounced query q.
LoggedInWith(q) ==
  /\ isLoggedIn
  /\ userLoggedIn
  /\ debouncedQuery = q
  /\ query = q

\* The results shown hold full results of the gated adapters.
ShowsAuthenticated == Range(results) \cap GatedFull # {}

\* C20: after a successful login with a non-empty debounced query, and
\* without the user changing the text or logging out, a new search is made
\* and the results shown are eventually the authenticated response, with
\* full gated results in place of the teasers.
C20_LoginRefreshesResults ==
  \A q \in LoginQueries \ {""} :
    (LoggedInWith(q) /\ fetches < MaxFetches)
      ~> (ShowsAuthenticated \/ ~LoggedInWith(q))

-----------------------------------------------------------------------------
\* The user is logged out and the text of the box is the debounced query q.
LoggedOutWith(q) ==
  /\ ~isLoggedIn
  /\ ~userLoggedIn
  /\ debouncedQuery = q
  /\ query = q

\* C21: after handleLogout with a non-empty debounced query, and without the
\* user changing the text or logging in again, a new search is made and the
\* results shown eventually hold no full gated content any more.
C21_LogoutRefreshesResults ==
  \A q \in LoginQueries \ {""} :
    (LoggedOutWith(q) /\ fetches < MaxFetches)
      ~> (~ShowsAuthenticated \/ ~LoggedOutWith(q))

-----------------------------------------------------------------------------
\* The debounce timer has fired, no effect run waits for performSearch and
\* no searchAll is in flight.
NoSearchInFlight == ~timer.pending /\ runs = <<>> /\ calls = <<>>

\* What the search effect shows for the debounced query q: nothing for a
\* blank one, and otherwise the curated matches merged with the list
\* searchAll returned for q last.
ResponseFor(q) ==
  IF IsEmptyQuery[q] THEN <<>>
  ELSE IF CacheKeys[q][userLoggedIn] \in DOMAIN cache
  THEN combinedResults(PredefinedResults[q], cache[CacheKeys[q][userLoggedIn]].results)
  ELSE PredefinedResults[q]

\* C22: once every search in flight has completed, the results shown are
\* the response for the most recent debounced query: a slower search for an
\* earlier query never overwrites the results of a later one.
C22_LatestQueryWins ==
  NoSearchInFlight => results = ResponseFor(debouncedQuery)

-----------------------------------------------------------------------------
\* C23: a searchAll invoked for a key before an earlier call for that key
\* has written the cache misses like the earlier one; each of them completes
\* and returns its list, and after each write the cache holds for that key
\* one entry, the list and the time of the call that wrote last.
C23_LastWriteWins ==
  /\ obs.op = "join" =>
       /\ obs.returns
       /\ obs.ret = allResults(obs.call)
       /\ obs.call.cacheKey \in DOMAIN cache
       /\ cache[obs.call.cacheKey].results = obs.ret
       /\ cache[obs.call.cacheKey] = returned[obs.call.cacheKey]
       /\ cache[obs.call.cacheKey].timestamp <= now
  /\ obs.op = "hit" => CacheKeys[obs.query][userLoggedIn] \in DOMAIN cache
  /\ \A i \in 1..Len(calls) : calls[i].pending # {}

\* C23 witness: of two calls for "hr" that both missed, the second one to
\* finish has replaced the entry the first one wrote.
C23_Witness ==
  /\ obs.op = "join"
  /\ obs.replaced
  /\ now = 0
  /\ fetches = 2
  /\ calls = <<>>
  /\ DOMAIN cache = {CacheKeys["hr"][FALSE]}

-----------------------------------------------------------------------------
\* C24: on a cache miss of a search made through useSearch, the list
\* written to the cache is the final list shown for the query, the curated
\* matches merged with the adapter results after deduplication, and not the
\* adapter results alone.
C24_CacheHoldsMergedList ==
  (obs.op = "join" /\ obs.call.caller = "hook") =>
    /\ obs.call.cacheKey \in DOMAIN cache
    /\ cache[obs.call.cacheKey].results =
         combinedResults(obs.call.predefinedResults, obs.ret)

-----------------------------------------------------------------------------
\* C25: logout called while the flag is already false, the transition from
\* false to false, leaves the contents of the cache as they are.
C25_LogoutWhenLoggedOutKeepsCache ==
  [][ (obs'.op = "logout" /\ ~userLoggedIn) => cache' = cache ]_vars

-----------------------------------------------------------------------------
(* ResultCard: opening a result that is shown                              *)

\* const isLoginRequired = result.source === 'nowcreate' && !isLoggedIn
isLoginRequired(result, loggedIn) == result.source = "nowcreate" /\ ~loggedIn

\* The user opens the card of results[i]: a card that requires login shows
\* the button that calls onLoginRequired, which is setNeedsLogin(true); any
\* other card shows the link, whose handleViewClick lets the click through.
openResult(i) ==
  LET result == results[i]
      raised == isLoginRequired(result, isLoggedIn)
  IN  /\ i \in 1..Len(results)
      /\ needsLogin' = (needsLogin \/ raised)
      /\ opened' = <<[result |-> result, isLoggedIn |-> isLoggedIn, raised |-> raised]>>
      /\ UNCHANGED <<svcVars, query, timer, debouncedQuery, results, runs,
                     catVars, isLoggedIn, refresh>>

\* The modal is closed without logging in: handleCloseLoginModal
handleCloseLoginModal ==
  /\ needsLogin
  /\ needsLogin' = FALSE
  /\ UNCHANGED <<svcVars, query, timer, debouncedQuery, results, runs,
                 catVars, isLoggedIn, refresh, opened>>

\* The page with one search at a time, the login modal and the result cards
NextOpen ==
  \/ handleSearch("cmdb")
  \/ DebounceFires
  \/ SearchEffectAlone
  \/ SettleCall
  \/ handleSubmit("alice", "secret")
  \/ \E q \in LoginQueries : RefreshFires(q)
  \/ handleLogout
  \/ \E i \in 1..Len(results) : openResult(i)
  \/ handleCloseLoginModal

SpecOpen == Init /\ [][NextOpen]_vars

\* C26: opening a result raises needsLogin exactly when the user is not
\* logged in and the result is a teaser of a login-gated adapter: every
\* gated teaser raises it, and no other result, such as a curated entry,
\* does.
C26_NeedsLoginIffGatedTeaser ==
  \A o \in Range(opened) :
    o.raised <=> (~o.isLoggedIn /\ o.result \in GatedTeasers)

-----------------------------------------------------------------------------
\* C27: a search is started for a value only when the debounce timer set at
\* the last change of the input fires, that is after the input stayed
\* unchanged for the whole delay; every change of the input cancels the
\* pending timer and starts a new one without searching, so of a burst of
\* changes only the last value is searched, and one firing starts at most
\* one search.
C27_Debounce ==
  [][ /\ query' # query =>
           /\ timer' = [pending |-> TRUE, value |-> query']
           /\ debouncedQuery' = debouncedQuery
           /\ runs' = runs
      /\ debouncedQuery' # debouncedQuery =>
           /\ timer.pending /\ ~timer'.pending
           /\ query' = query
           /\ debouncedQuery' = query
      /\ Len(runs') > Len(runs) =>
           /\ timer.pending /\ ~timer'.pending
           /\ debouncedQuery # query
           /\ runs' = Append(runs, query)
           /\ debouncedQuery' = query ]_vars

\* C27 witness: after "cmdb" was searched the input was changed and changed
\* back within the delay: the timer is pending, and the value in between was
\* not searched.
C27_Witness ==
  /\ timer = [pending |-> TRUE, value |-> "cmdb"]
  /\ query = "cmdb"
  /\ debouncedQuery = "cmdb"
  /\ runs = <<"cmdb">>
  /\ fetches = 0

-----------------------------------------------------------------------------
(* The categorizer's rules, as keyword tables                              *)

\* The text the rules are matched against
CatText == toLowerCase(catArgs.title \o " " \o catArgs.snippet)

\* A rule matches when one of its keywords occurs in the text.
Occurs(keywords) == \E k \in keywords : includes(CatText, k)

\* The names of the tags of one kind in the list extractCategories returned,
\* in their order
NamesOf(type) ==
  LET tags == SelectSeq(catResult.categories, LAMBDA c : c.type = type)
  IN  [i \in 1..Len(tags) |-> tags[i].name]

DeveloperRule == catArgs.isDeveloper \/ Occurs({"script", "code", "api", "developer"})
AdministratorRule == Occurs({"admin", "configure"})
ProcessOwnerRule == Occurs({"process", "workflow"})

\* C28: the Persona tag is that of the first rule that matches, in the
\* order Developer (hint or keyword), Administrator, Process Owner, and All
\* when none matches; a text matching several rules gets that one tag only.
C28_PersonaPriorityChain ==
  catResult.returned =>
    NamesOf(Persona) =
      IF DeveloperRule THEN <<"Developer">>
      ELSE IF AdministratorRule THEN <<"Administrator">>
      ELSE IF ProcessOwnerRule THEN <<"Process Owner">>
      ELSE <<"All">>

\* C28 witness: a text with an administrator, a process and a developer
\* keyword has been tagged Developer.
C28_Witness ==
  /\ catResult.returned
  /\ ~catArgs.isDeveloper
  /\ catArgs.title = "Admin Workflow"
  /\ catArgs.snippet = "script automation"
  /\ NamesOf(Persona) = <<"Developer">>

ProductGroups ==
  [name \in {"ITSM", "HRSD", "CSM", "ITOM", "CMDB", "IntegrationHub", "Security"} |->
     CASE name = "ITSM" -> {"itsm", "incident", "problem", "change"}
       [] name = "HRSD" -> {"hrsd", "hr service", "human resources"}
       [] name = "CSM"  -> {"csm", "customer service"}
       [] name = "ITOM" -> {"itom", "operations management"}
       [] name = "CMDB" -> {"cmdb", "configuration management"}
       [] name = "IntegrationHub" -> {"flow", "integration hub"}
       [] name = "Security" -> {"security", "iam", "governance"}]

MatchingGroups == {name \in DOMAIN ProductGroups : Occurs(ProductGroups[name])}

\* C29: the Product tags are those of every keyword group that matches the
\* text, and the fallback tag Platform is among them exactly when no group
\* matches.
C29_ProductCumulative ==
  catResult.returned =>
    /\ \A name \in MatchingGroups : name \in Range(NamesOf(Product))
    /\ "Platform" \in Range(NamesOf(Product)) <=> MatchingGroups = {}
    /\ Range(NamesOf(Product)) \subseteq MatchingGroups \cup {"Platform"}

\* C29 witness: a text matching two groups carries both tags and no
\* Platform tag.
C29_Witness ==
  /\ catResult.returned
  /\ catArgs.title = "ITSM Incident"
  /\ catArgs.snippet = "customer service integration"
  /\ NamesOf(Product) = <<"ITSM", "CSM">>

IntegrationRule == Occurs({"integration", "connect"})
ReportingRule == Occurs({"report", "dashboard"})
WorkflowRule == Occurs({"workflow", "automation"})

\* C30: the UseCase tag is that of the first rule that matches, in the order
\* Integration, Reporting, Workflow Automation; there is at most one, and
\* none at all when no rule matches.
C30_UseCasePriorityChain ==
  catResult.returned =>
    NamesOf(UseCase) =
      IF IntegrationRule THEN <<"Integration">>
      ELSE IF ReportingRule THEN <<"Reporting">>
      ELSE IF WorkflowRule THEN <<"Workflow Automation">>
      ELSE <<>>

\* C30 witness: a text with a reporting and an integration keyword has been
\* tagged Integration only.
C30_Witness ==
  /\ catResult.returned
  /\ catArgs.title = "Flow Report"
  /\ catArgs.snippet = "customer service integration"
  /\ NamesOf(UseCase) = <<"Integration">>

====
